---- MODULE Spec2Model ----
(***************************************************************************)
(* Workflow Graph Analysis Engine of otom: WorkflowMapper                  *)
(* (src/core/workflow/workflow_mapper.py) and the part of OtomConsultant   *)
(* (src/core/consultant/otom_brain.py) that drives it.                     *)
(*                                                                         *)
(* Python values are modelled as follows.                                  *)
(*   - A str that the code splits, lower-cases or uses as a node id is a   *)
(*     sequence of atoms: words and the separator " ".  The empty str is   *)
(*     <<>>.                                                               *)
(*   - A str that the code only compares (department, frequency) is a      *)
(*     TLA+ string; None in such a field is the value PyNone.              *)
(*   - A dict is a function whose DOMAIN is the set of keys present.       *)
(*   - A list is a sequence.  A dict that the code iterates is kept as a   *)
(*     sequence of keys in insertion order plus a function on the keys.    *)
(***************************************************************************)
EXTENDS Integers, Sequences, FiniteSets, TLC

\* -------------------------------------------------------------------------
\* State
\* -------------------------------------------------------------------------

VARIABLES
    \* WorkflowMapper, lines 47-52
    dependencies_graph,
    workflows,
    bottlenecks,
    redundancies,
    last_update,
    update_schedule,
    \* the last call: its name, the exception it ended with ("none" when it
    \* returned), for analyze_company_workflows the company, and whether it
    \* repeated an earlier call: a map_company_workflows call with the batch
    \* of the call before it, a detector call with no map_company_workflows
    \* call since the detector last ran, a generate_insights call with no
    \* other state-changing call since generate_insights last ran
    call,
    \* what the last generate_insights returned
    insights,
    \* what the last analyze_company_workflows returned
    report,
    \* history: the batch of the latest map_company_workflows call and the
    \* number of such calls
    lastBatch,
    passes,
    \* history: the pairs <<name, node id>> of the workflows that
    \* _add_to_workflow_graph has merged and the edges <<dependency, node id>>
    \* they listed
    merged,
    listed,
    \* history: some map_company_workflows call raised after merging part of
    \* its batch
    partial,
    \* history: the calls among identify, detect, insights made since the
    \* latest map_company_workflows call, and "insights_last" when no
    \* detector ran since the latest generate_insights
    since,
    \* history: for each company, the graph of a mapper that received that
    \* company's batches only
    solo,
    \* the arguments and the return value of the latest call of
    \* _calculate_automation_potential, _calculate_similarity,
    \* _identify_quick_wins, collect_employee_data or get_workflow_update
    \* (PyNone when the call raised)
    args,
    result

\* -------------------------------------------------------------------------
\* Bounds of the model
\* -------------------------------------------------------------------------

\* most workflows in one batch handed to map_company_workflows
MaxActs == 2

\* most calls of map_company_workflows on one mapper
MaxPasses == 2

\* -------------------------------------------------------------------------
\* Python values
\* -------------------------------------------------------------------------

PyNone == "<None>"

EmptyStr == <<>>

\* dict.get(key, default)
Get(d, k, default) == IF k \in DOMAIN d THEN d[k] ELSE default

\* truth value of dict.get(key) for a str-valued key: absent (None) and ""
\* are falsy
Truthy(d, k) == k \in DOMAIN d /\ d[k] # EmptyStr

\* the elements of a sequence
Range(s) == {s[i] : i \in 1..Len(s)}

\* variant of InsertKey: the graph keeps parallel edges (a MultiDiGraph)
InsertKeyAlways(keys, x) == Append(keys, x)

\* list.append(x) unless x is already a key: insertion into an ordered dict
InsertKey(keys, x) == IF x \in Range(keys) THEN keys ELSE Append(keys, x)

\* -------------------------------------------------------------------------
\* Inputs: employee records as analyze_company_workflows and
\* map_company_workflows receive them
\* -------------------------------------------------------------------------

InvoiceApproval == <<"Invoice", " ", "Approval">>
SendInvoice == <<"Send", " ", "Invoice">>
ExplicitId == <<"n1">>

\* workflow dicts; keys read by _add_to_workflow_graph are id, name,
\* department, duration_hours, frequency, dependencies
WfApproval ==
    [name |-> InvoiceApproval, department |-> "Finance", duration_hours |-> 2,
     frequency |-> "daily", dependencies |-> <<>>]
WfApprovalWithId ==
    [id |-> ExplicitId, name |-> InvoiceApproval, duration_hours |-> 2]
WfSend ==
    [name |-> SendInvoice, department |-> "Sales",
     dependencies |-> <<InvoiceApproval, InvoiceApproval>>]
WfNoName ==
    [id |-> ExplicitId, department |-> "Ops"]
WfApprovalSales ==
    [id |-> EmptyStr, name |-> InvoiceApproval, department |-> "Sales",
     duration_hours |-> 3, frequency |-> "weekly",
     dependencies |-> <<SendInvoice>>]

Workflows ==
    {WfApproval, WfApprovalWithId, WfSend, WfNoName, WfApprovalSales}

\* sequences over S of length at most n
SeqUpTo(S, n) == UNION {[1..k -> S] : k \in 0..n}

RECURSIVE SumLen(_)
SumLen(ss) == IF ss = <<>> THEN 0 ELSE Len(Head(ss)) + SumLen(Tail(ss))

\* an employee record: a dict with the key "workflows", here with at least
\* one workflow
EmployeeRecords ==
    {[workflows |-> ws] : ws \in SeqUpTo(Workflows, MaxActs) \ {<<>>}}

\* the batches: lists of employee records holding at most MaxActs workflows
\* in all (the empty batch included)
Batches ==
    {b \in SeqUpTo(EmployeeRecords, MaxActs) :
        SumLen([i \in 1..Len(b) |-> b[i].workflows]) <= MaxActs}

\* the companies whose responses OtomConsultant analyses
Companies == {"acme", "globex"}

\* -------------------------------------------------------------------------
\* networkx.DiGraph as the mapper uses it.  node: the keys of G._node in
\* insertion order; data: the attribute dict of each node; succ: the keys
\* of G._succ[n] in insertion order.
\* -------------------------------------------------------------------------

EmptyDict == [k \in {} |-> 0]

EmptyGraph == [node |-> <<>>, data |-> EmptyDict, succ |-> EmptyDict]

NodeSet(G) == Range(G.node)

\* dict.update(other)
DictUpdate(d, e) ==
    [k \in DOMAIN d \cup DOMAIN e |-> IF k \in DOMAIN e THEN e[k] ELSE d[k]]

\* d[k] = v on a dict that may or may not hold k
DictSet(d, k, v) == [x \in DOMAIN d \cup {k} |-> IF x = k THEN v ELSE d[x]]

\* variant of AddNode: every call makes a new node entry
AddNodeAlways(G, n, attr) ==
    [node |-> Append(G.node, n),
     data |-> DictSet(G.data, n, attr),
     succ |-> DictSet(G.succ, n, Get(G.succ, n, <<>>))]

\* DiGraph.add_node(n, **attr): a new node gets attr, an existing node has
\* its attribute dict updated with attr
AddNode(G, n, attr) ==
    IF n \in NodeSet(G)
    THEN [G EXCEPT !.data = DictSet(G.data, n, DictUpdate(G.data[n], attr))]
    ELSE [node |-> Append(G.node, n),
          data |-> DictSet(G.data, n, attr),
          succ |-> DictSet(G.succ, n, <<>>)]

\* variant of AddEdge: the edge is recorded without making u and v nodes
AddEdgeNoStub(G, u, v) ==
    [G EXCEPT !.succ = DictSet(G.succ, u, InsertKey(Get(G.succ, u, <<>>), v))]

\* DiGraph.add_edge(u, v): u and v become nodes with an empty attribute
\* dict when they are not nodes yet; the edge is a key of G._succ[u]
AddEdge(G, u, v) ==
    LET G1 == IF u \in NodeSet(G) THEN G ELSE AddNode(G, u, EmptyDict)
        G2 == IF v \in NodeSet(G1) THEN G1 ELSE AddNode(G1, v, EmptyDict)
    IN  [G2 EXCEPT !.succ = DictSet(G2.succ, u, InsertKey(G2.succ[u], v))]

\* DiGraph.edges(): (u, v) for u in node order, v in the order of succ[u]
RECURSIVE EdgesFrom(_, _)
EdgesFrom(G, i) ==
    IF i > Len(G.node) THEN <<>>
    ELSE LET u == G.node[i]
         IN  [j \in 1..Len(G.succ[u]) |-> <<u, G.succ[u][j]>>]
                 \o EdgesFrom(G, i + 1)

Edges(G) == EdgesFrom(G, 1)

EdgeSet(G) == Range(Edges(G))

\* DiGraph.in_degree(n)
InDegree(G, n) == Cardinality({e \in EdgeSet(G) : e[2] = n})

\* -------------------------------------------------------------------------
\* WorkflowMapper._add_to_workflow_graph and map_company_workflows
\* -------------------------------------------------------------------------

\* line 202: node_id = workflow.get("id") or workflow["name"]
NodeIdOf(workflow) ==
    IF Truthy(workflow, "id") THEN workflow.id ELSE workflow.name

\* lines 202 and 207 subscript workflow["name"]: KeyError when the key is
\* absent (line 207 is evaluated before add_node is called)
AddRaises(workflow) == "name" \notin DOMAIN workflow

\* variant of NodeAttrs: the automation_potential of the workflow is stored
\* on the node as well
NodeAttrsWithPotential(workflow) ==
    [name |-> workflow.name,
     department |-> Get(workflow, "department", PyNone),
     duration |-> Get(workflow, "duration_hours", 1),
     frequency |-> Get(workflow, "frequency", "daily"),
     automation_potential |-> Get(workflow, "automation_potential", <<0, 1>>)]

\* the keyword arguments of add_node, lines 207-210
NodeAttrs(workflow) ==
    [name |-> workflow.name,
     department |-> Get(workflow, "department", PyNone),
     duration |-> Get(workflow, "duration_hours", 1),
     frequency |-> Get(workflow, "frequency", "daily")]

\* variant of AddDependencies: the edge points from the dependent to the
\* dependency
RECURSIVE AddDependenciesReversed(_, _, _)
AddDependenciesReversed(G, deps, node_id) ==
    IF deps = <<>> THEN G
    ELSE AddDependenciesReversed(AddEdge(G, node_id, Head(deps)), Tail(deps),
                                 node_id)

\* lines 214-215: for dep in workflow.get("dependencies", [])
RECURSIVE AddDependencies(_, _, _)
AddDependencies(G, deps, node_id) ==
    IF deps = <<>> THEN G
    ELSE AddDependencies(AddEdge(G, Head(deps), node_id), Tail(deps), node_id)

\* _add_to_workflow_graph on a workflow that does not raise
AddToWorkflowGraph(G, workflow) ==
    AddDependencies(AddNode(G, NodeIdOf(workflow), NodeAttrs(workflow)),
                    Get(workflow, "dependencies", <<>>),
                    NodeIdOf(workflow))

\* the workflows of a batch in the order of the loops of lines 160-162
RECURSIVE Flatten(_)
Flatten(batch) ==
    IF batch = <<>> THEN <<>>
    ELSE Get(Head(batch), "workflows", <<>>) \o Flatten(Tail(batch))

\* lines 160-162: the graph is updated workflow by workflow until one
\* raises; st.done counts the calls of _add_to_workflow_graph that returned
RECURSIVE BuildGraph(_, _)
BuildGraph(st, ws) ==
    IF ws = <<>> \/ st.raised THEN st
    ELSE IF AddRaises(Head(ws)) THEN [st EXCEPT !.raised = TRUE]
    ELSE BuildGraph([st EXCEPT !.graph = AddToWorkflowGraph(st.graph, Head(ws)),
                               !.done = @ + 1],
                    Tail(ws))

\* the graph loop of map_company_workflows on graph G
MapGraph(G, batch) ==
    BuildGraph([graph |-> G, raised |-> FALSE, done |-> 0], Flatten(batch))

\* -------------------------------------------------------------------------
\* Numbers.  The floats the detectors compute are kept as exact fractions
\* <<numerator, denominator>> in lowest terms, denominator > 0.
\* -------------------------------------------------------------------------

RECURSIVE Gcd(_, _)
Gcd(a, b) == IF b = 0 THEN a ELSE Gcd(b, a % b)

Abs(x) == IF x < 0 THEN -x ELSE x

Frac(n, d) ==
    LET g == Gcd(Abs(n), d) IN IF n = 0 THEN <<0, 1>> ELSE <<n \div g, d \div g>>

FracAdd(p, q) == Frac(p[1] * q[2] + q[1] * p[2], p[2] * q[2])

FracMul(p, q) == Frac(p[1] * q[1], p[2] * q[2])

FracGt(p, q) == p[1] * q[2] > q[1] * p[2]

FracMin(p, q) == IF FracGt(p, q) THEN q ELSE p

FracOfInt(n) == <<n, 1>>

\* sum of f[x] (fractions) over the finite set S
RECURSIVE FracSum(_, _)
FracSum(f, S) ==
    IF S = {} THEN <<0, 1>>
    ELSE LET x == CHOOSE y \in S : TRUE
         IN  FracAdd(f[x], FracSum(f, S \ {x}))

\* sum of f[x] (integers) over the finite set S
RECURSIVE IntSum(_, _)
IntSum(f, S) ==
    IF S = {} THEN 0
    ELSE LET x == CHOOSE y \in S : TRUE IN f[x] + IntSum(f, S \ {x})

\* -------------------------------------------------------------------------
\* networkx.betweenness_centrality(G): normalized, endpoints excluded,
\* unweighted, every node a source
\* -------------------------------------------------------------------------

Successors(G, v) == Range(G.succ[v])

\* breadth-first search from the nodes of `frontier` (at distance `depth`):
\* info[w] = [d |-> distance from the source, sigma |-> number of shortest
\* paths from the source] for every node reached
RECURSIVE BfsLevels(_, _, _, _)
BfsLevels(G, frontier, info, depth) ==
    LET next == {w \in NodeSet(G) \ DOMAIN info :
                    \E v \in frontier : w \in Successors(G, v)}
        sigma(w) == IntSum([v \in frontier |-> info[v].sigma],
                           {v \in frontier : w \in Successors(G, v)})
        info2 == [w \in DOMAIN info \cup next |->
                    IF w \in DOMAIN info THEN info[w]
                    ELSE [d |-> depth + 1, sigma |-> sigma(w)]]
    IN  IF next = {} THEN info ELSE BfsLevels(G, next, info2, depth + 1)

ShortestPaths(G, s) ==
    BfsLevels(G, {s}, [w \in {s} |-> [d |-> 0, sigma |-> 1]], 0)

\* betweenness of every node, as fractions
BetweennessCentrality(G) ==
    LET N == NodeSet(G)
        n == Cardinality(N)
        sp == [s \in N |-> ShortestPaths(G, s)]
        \* the share of the shortest s-t paths that pass through v
        through(v, s, t) ==
            IF /\ t \in DOMAIN sp[s] /\ v \in DOMAIN sp[s] /\ t \in DOMAIN sp[v]
               /\ sp[s][v].d + sp[v][t].d = sp[s][t].d
            THEN Frac(sp[s][v].sigma * sp[v][t].sigma, sp[s][t].sigma)
            ELSE <<0, 1>>
        \* summed over the sources s and, for each, over the targets t
        from(v, s) == FracSum([t \in N \ {v, s} |-> through(v, s, t)],
                              N \ {v, s})
        raw(v) == FracSum([s \in N \ {v} |-> from(v, s)], N \ {v})
    IN  [v \in N |->
            IF n <= 2 THEN raw(v)
            ELSE FracMul(raw(v), <<1, (n - 1) * (n - 2)>>)]

\* -------------------------------------------------------------------------
\* WorkflowMapper.identify_bottlenecks
\* -------------------------------------------------------------------------

\* str.lower() of the atoms that occur in names
LowerAtom(a) ==
    CASE a = "Invoice" -> "invoice"
      [] a = "Invoices" -> "invoices"
      [] a = "Approval" -> "approval"
      [] a = "APPROVAL" -> "approval"
      [] a = "PreApprovals" -> "preapprovals"
      [] a = "Send" -> "send"
      [] a = "Review" -> "review"
      [] a = "Many" -> "many"
      [] a = "A" -> "a"
      [] a = "B" -> "b"
      [] a = "C" -> "c"
      [] OTHER -> a

\* str.lower()
Lower(str) == [i \in 1..Len(str) |-> LowerAtom(str[i])]

\* "approval" in str, for a str of lower-cased atoms: the needle has no
\* separator, so it lies within one atom
ContainsApproval(str) ==
    \E i \in 1..Len(str) : str[i] \in {"approval", "preapprovals"}

\* variant of CapacityBottlenecks: the threshold is not strict
CapacityBottlenecksAtLeast(G) ==
    LET centrality == BetweennessCentrality(G)
        Test(node) == ~FracGt(<<3, 10>>, centrality[node])
        Make(node) ==
            [node_id |-> node, type |-> "capacity",
             severity |-> FracMin(FracMul(centrality[node], <<2, 1>>), <<1, 1>>),
             estimated_savings_hours |-> FracMul(centrality[node], <<40, 1>>)]
    IN  LET hits == SelectSeq(G.node, Test)
        IN  [i \in 1..Len(hits) |-> Make(hits[i])]

\* lines 224-236
CapacityBottlenecks(G) ==
    LET centrality == BetweennessCentrality(G)
        Test(node) == FracGt(centrality[node], <<3, 10>>)
        Make(node) ==
            [node_id |-> node, type |-> "capacity",
             severity |-> FracMin(FracMul(centrality[node], <<2, 1>>), <<1, 1>>),
             estimated_savings_hours |-> FracMul(centrality[node], <<40, 1>>)]
    IN  LET hits == SelectSeq(G.node, Test)
        IN  [i \in 1..Len(hits) |-> Make(hits[i])]

\* variant of DependencyBottlenecks: the threshold is not strict
DependencyBottlenecksAtLeast(G) ==
    LET Test(node) == InDegree(G, node) >= 5
        Make(node) ==
            [node_id |-> node, type |-> "dependency",
             severity |-> FracMin(Frac(InDegree(G, node), 10), <<1, 1>>),
             estimated_savings_hours |-> FracOfInt(InDegree(G, node) * 2)]
    IN  LET hits == SelectSeq(G.node, Test)
        IN  [i \in 1..Len(hits) |-> Make(hits[i])]

\* lines 238-250
DependencyBottlenecks(G) ==
    LET Test(node) == InDegree(G, node) > 5
        Make(node) ==
            [node_id |-> node, type |-> "dependency",
             severity |-> FracMin(Frac(InDegree(G, node), 10), <<1, 1>>),
             estimated_savings_hours |-> FracOfInt(InDegree(G, node) * 2)]
    IN  LET hits == SelectSeq(G.node, Test)
        IN  [i \in 1..Len(hits) |-> Make(hits[i])]

\* variant of ApprovalBottlenecks: the name is not lower-cased
ApprovalBottlenecksCaseSensitive(G) ==
    LET Test(node) == ContainsApproval(Get(G.data[node], "name", EmptyStr))
        Make(node) ==
            [node_id |-> node, type |-> "approval", severity |-> <<7, 10>>,
             estimated_savings_hours |-> FracOfInt(10)]
    IN  LET hits == SelectSeq(G.node, Test)
        IN  [i \in 1..Len(hits) |-> Make(hits[i])]

\* lines 252-264
ApprovalBottlenecks(G) ==
    LET Test(node) ==
            ContainsApproval(Lower(Get(G.data[node], "name", EmptyStr)))
        Make(node) ==
            [node_id |-> node, type |-> "approval", severity |-> <<7, 10>>,
             estimated_savings_hours |-> FracOfInt(10)]
    IN  LET hits == SelectSeq(G.node, Test)
        IN  [i \in 1..Len(hits) |-> Make(hits[i])]

\* lines 266-279
HandoffBottlenecks(G) ==
    LET dept(node) == Get(G.data[node], "department", PyNone)
        Test(edge) == dept(edge[1]) # dept(edge[2])
        Make(edge) ==
            [node_id |-> edge[1] \o <<"_to_">> \o edge[2], type |-> "handoff",
             severity |-> <<6, 10>>, estimated_savings_hours |-> FracOfInt(5)]
    IN  LET hits == SelectSeq(Edges(G), Test)
        IN  [i \in 1..Len(hits) |-> Make(hits[i])]

\* variant of IdentifyBottlenecksResult: the new entries are appended to
\* the stored list
IdentifyBottlenecksAppending(G) ==
    bottlenecks \o CapacityBottlenecks(G) \o DependencyBottlenecks(G)
        \o ApprovalBottlenecks(G) \o HandoffBottlenecks(G)

\* the list identify_bottlenecks returns and stores in self.bottlenecks
IdentifyBottlenecksResult(G) ==
    CapacityBottlenecks(G) \o DependencyBottlenecks(G)
        \o ApprovalBottlenecks(G) \o HandoffBottlenecks(G)

\* -------------------------------------------------------------------------
\* WorkflowMapper.detect_redundancies
\* -------------------------------------------------------------------------

\* str.split(): the words between the separators
Split(str) == SelectSeq(str, LAMBDA a : a # " ")

Max(a, b) == IF a > b THEN a ELSE b

\* variant of CalculateSimilarity: the common words are divided by the
\* word count of the first name
CalculateSimilarityFirstName(node1_data, node2_data) ==
    LET name1 == Lower(Get(node1_data, "name", EmptyStr))
        name2 == Lower(Get(node2_data, "name", EmptyStr))
        common_words == Range(Split(name1)) \cap Range(Split(name2))
        names ==
            IF name1 # EmptyStr /\ name2 # EmptyStr /\ common_words # {}
            THEN Frac(Cardinality(common_words), Len(Split(name1)))
            ELSE <<0, 1>>
        department ==
            IF Get(node1_data, "department", PyNone)
                   = Get(node2_data, "department", PyNone)
            THEN <<2, 10>> ELSE <<0, 1>>
    IN  FracMin(FracAdd(names, department), <<1, 1>>)

\* variant of CalculateSimilarity: the sum is returned without min(., 1.0)
CalculateSimilarityUnclamped(node1_data, node2_data) ==
    LET name1 == Lower(Get(node1_data, "name", EmptyStr))
        name2 == Lower(Get(node2_data, "name", EmptyStr))
        common_words == Range(Split(name1)) \cap Range(Split(name2))
        names ==
            IF name1 # EmptyStr /\ name2 # EmptyStr /\ common_words # {}
            THEN Frac(Cardinality(common_words),
                      Max(Len(Split(name1)), Len(Split(name2))))
            ELSE <<0, 1>>
        department ==
            IF Get(node1_data, "department", PyNone)
                   = Get(node2_data, "department", PyNone)
            THEN <<2, 10>> ELSE <<0, 1>>
        duration1 == Get(node1_data, "duration", 0)
        duration2 == Get(node2_data, "duration", 0)
        duration ==
            IF duration1 # 0 /\ duration2 # 0
            THEN Frac(3 * (Max(duration1, duration2) - Abs(duration1 - duration2)),
                      10 * Max(duration1, duration2))
            ELSE <<0, 1>>
    IN  FracAdd(FracAdd(names, department), duration)

\* _calculate_similarity, lines 337-360, on two attribute dicts
CalculateSimilarity(node1_data, node2_data) ==
    LET name1 == Lower(Get(node1_data, "name", EmptyStr))
        name2 == Lower(Get(node2_data, "name", EmptyStr))
        common_words == Range(Split(name1)) \cap Range(Split(name2))
        names ==
            IF name1 # EmptyStr /\ name2 # EmptyStr /\ common_words # {}
            THEN Frac(Cardinality(common_words),
                      Max(Len(Split(name1)), Len(Split(name2))))
            ELSE <<0, 1>>
        department ==
            IF Get(node1_data, "department", PyNone)
                   = Get(node2_data, "department", PyNone)
            THEN <<2, 10>> ELSE <<0, 1>>
        duration1 == Get(node1_data, "duration", 0)
        duration2 == Get(node2_data, "duration", 0)
        duration ==
            IF duration1 # 0 /\ duration2 # 0
            THEN Frac(3 * (Max(duration1, duration2) - Abs(duration1 - duration2)),
                      10 * Max(duration1, duration2))
            ELSE <<0, 1>>
    IN  FracMin(FracAdd(FracAdd(names, department), duration), <<1, 1>>)

\* lines 299-312: the pairs (i, j), i < j, of positions in the node list in
\* the order of the two loops
RECURSIVE PairsFrom(_, _, _)
PairsFrom(n, i, j) ==
    IF i > n THEN <<>>
    ELSE IF j > n THEN PairsFrom(n, i + 1, i + 2)
    ELSE <<(<<i, j>>)>> \o PairsFrom(n, i, j + 1)

\* variant of DuplicateProcesses: the threshold is not strict
DuplicateProcessesAtLeast(G) ==
    LET data(i) == G.data[G.node[i]]
        Test(p) == ~FracGt(<<8, 10>>, CalculateSimilarity(data(p[1]), data(p[2])))
        Make(p) ==
            [type |-> "duplicate_process",
             nodes |-> <<G.node[p[1]], G.node[p[2]]>>,
             similarity_score |-> CalculateSimilarity(data(p[1]), data(p[2])),
             departments |-> <<Get(data(p[1]), "department", PyNone),
                               Get(data(p[2]), "department", PyNone)>>,
             estimated_waste_hours |-> Get(data(p[1]), "duration", 1) * 4]
    IN  LET hits == SelectSeq(PairsFrom(Len(G.node), 1, 2), Test)
        IN  [i \in 1..Len(hits) |-> Make(hits[i])]

\* lines 296-312
DuplicateProcesses(G) ==
    LET data(i) == G.data[G.node[i]]
        Test(p) == FracGt(CalculateSimilarity(data(p[1]), data(p[2])), <<8, 10>>)
        Make(p) ==
            [type |-> "duplicate_process",
             nodes |-> <<G.node[p[1]], G.node[p[2]]>>,
             similarity_score |-> CalculateSimilarity(data(p[1]), data(p[2])),
             departments |-> <<Get(data(p[1]), "department", PyNone),
                               Get(data(p[2]), "department", PyNone)>>,
             estimated_waste_hours |-> Get(data(p[1]), "duration", 1) * 4]
    IN  LET hits == SelectSeq(PairsFrom(Len(G.node), 1, 2), Test)
        IN  [i \in 1..Len(hits) |-> Make(hits[i])]

\* position of node n in the node list
IndexOf(G, n) == CHOOSE i \in 1..Len(G.node) : G.node[i] = n

\* variant of CyclesThrough: a cycle is listed from each of its nodes
RECURSIVE CyclesThroughAny(_, _, _, _)
CyclesThroughAny(G, start, path, j) ==
    LET u == path[Len(path)]
    IN  IF j > Len(G.succ[u]) THEN <<>>
        ELSE LET w == G.succ[u][j]
                 here ==
                     IF w = G.node[start] THEN <<path>>
                     ELSE IF w \notin Range(path)
                     THEN CyclesThroughAny(G, start, Append(path, w), 1)
                     ELSE <<>>
             IN  here \o CyclesThroughAny(G, start, path, j + 1)

\* networkx.simple_cycles(G): every simple cycle once.  A cycle is listed
\* from its earliest node in node order; cycles are listed by that node,
\* then in depth-first order of the successor lists.
RECURSIVE CyclesThrough(_, _, _, _)
CyclesThrough(G, start, path, j) ==
    LET u == path[Len(path)]
    IN  IF j > Len(G.succ[u]) THEN <<>>
        ELSE LET w == G.succ[u][j]
                 here ==
                     IF w = G.node[start] THEN <<path>>
                     ELSE IF IndexOf(G, w) > start /\ w \notin Range(path)
                     THEN CyclesThrough(G, start, Append(path, w), 1)
                     ELSE <<>>
             IN  here \o CyclesThrough(G, start, path, j + 1)

RECURSIVE SimpleCyclesFrom(_, _)
SimpleCyclesFrom(G, start) ==
    IF start > Len(G.node) THEN <<>>
    ELSE CyclesThrough(G, start, <<G.node[start]>>, 1)
             \o SimpleCyclesFrom(G, start + 1)

SimpleCycles(G) == SimpleCyclesFrom(G, 1)

\* lines 314-327
CircularDependencies(G) ==
    LET cycles == SimpleCycles(G)
    IN  [i \in 1..Len(cycles) |->
            [type |-> "circular_dependency", nodes |-> cycles[i],
             estimated_waste_hours |-> Len(cycles[i]) * 3]]

\* the list detect_redundancies returns and stores in self.redundancies
DetectRedundanciesResult(G) == DuplicateProcesses(G) \o CircularDependencies(G)

\* -------------------------------------------------------------------------
\* WorkflowMapper.generate_insights.  A text formatted with :.0f is kept as
\* the integer it shows.
\* -------------------------------------------------------------------------

\* variant of Format0f: the digits after the point are cut off
Format0fTruncated(x) == x[1] \div x[2]

\* format(x, ".0f"): x rounded to the nearest integer, a tie to the even one
Format0f(x) ==
    LET floor == x[1] \div x[2]
        twice == 2 * (x[1] % x[2])
    IN  IF twice < x[2] THEN floor
        ELSE IF twice > x[2] THEN floor + 1
        ELSE IF floor % 2 = 0 THEN floor ELSE floor + 1

\* the nodes whose attribute dict has automation_potential above the
\* threshold num/10; the attribute is read with default 0
AutomationAbove(G, nodes, num) ==
    {n \in nodes : FracGt(Get(G.data[n], "automation_potential", <<0, 1>>),
                          <<num, 10>>)}

\* variant of GenerateDepartmentInsights: the department "unknown" always
\* has an entry
GenerateDepartmentInsightsWithUnknown(G, bs) ==
    LET depts == {Get(G.data[n], "department", "unknown") : n \in NodeSet(G)}
                     \cup {"unknown"}
        dept_nodes(dept) ==
            {n \in NodeSet(G) : Get(G.data[n], "department", PyNone) = dept}
    IN  [dept \in depts |->
            [total_processes |-> Cardinality(dept_nodes(dept)),
             bottlenecks |->
                 Cardinality({i \in 1..Len(bs) :
                                 bs[i].node_id \in dept_nodes(dept)}),
             automation_candidates |->
                 Cardinality(AutomationAbove(G, dept_nodes(dept), 7)),
             weekly_hours |->
                 IntSum([n \in dept_nodes(dept) |->
                            Get(G.data[n], "duration", 0) * 5],
                        dept_nodes(dept))]]

\* _generate_department_insights, lines 623-641
GenerateDepartmentInsights(G, bs) ==
    LET depts == {Get(G.data[n], "department", "unknown") : n \in NodeSet(G)}
        dept_nodes(dept) ==
            {n \in NodeSet(G) : Get(G.data[n], "department", PyNone) = dept}
    IN  [dept \in depts |->
            [total_processes |-> Cardinality(dept_nodes(dept)),
             bottlenecks |->
                 Cardinality({i \in 1..Len(bs) :
                                 bs[i].node_id \in dept_nodes(dept)}),
             automation_candidates |->
                 Cardinality(AutomationAbove(G, dept_nodes(dept), 7)),
             weekly_hours |->
                 IntSum([n \in dept_nodes(dept) |->
                            Get(G.data[n], "duration", 0) * 5],
                        dept_nodes(dept))]]

\* variant of IdentifyQuickWins: the whole list is returned
IdentifyQuickWinsUncapped(G) ==
    LET Test(n) == n \in AutomationAbove(G, NodeSet(G), 8) /\ InDegree(G, n) < 2
        Make(n) ==
            [action |-> <<"Automate", " ">> \o Get(G.data[n], "name", n),
             savings |-> Format0f(FracOfInt(Get(G.data[n], "duration", 1) * 5))]
    IN  LET hits == SelectSeq(G.node, Test)
        IN  [i \in 1..Len(hits) |-> Make(hits[i])]

\* _identify_quick_wins, lines 643-659
IdentifyQuickWins(G) ==
    LET Test(n) == n \in AutomationAbove(G, NodeSet(G), 8) /\ InDegree(G, n) < 2
        Make(n) ==
            [action |-> <<"Automate", " ">> \o Get(G.data[n], "name", n),
             savings |-> Format0f(FracOfInt(Get(G.data[n], "duration", 1) * 5))]
        wins == LET hits == SelectSeq(G.node, Test)
        IN  [i \in 1..Len(hits) |-> Make(hits[i])]
    IN  SubSeq(wins, 1, IF Len(wins) < 5 THEN Len(wins) ELSE 5)

\* the dict generate_insights returns, lines 573-621 (the fixed texts and
\* the fixed long-term initiatives left out)
GenerateInsightsResult(G, bs, rs) ==
    LET total_savings_hours ==
            FracSum([i \in 1..Len(bs) |->
                        bs[i].estimated_savings_hours],
                    1..Len(bs))
    IN  [executive_summary |->
            [bottlenecks_found |-> Len(bs),
             redundancies_found |-> Len(rs),
             potential_time_savings |-> Format0f(total_savings_hours),
             potential_cost_savings |->
                 Format0f(FracMul(total_savings_hours, <<50 * 52, 1>>)),
             automation_opportunities |->
                 Cardinality(AutomationAbove(G, NodeSet(G), 7))],
         department_specific |-> GenerateDepartmentInsights(G, bs),
         quick_wins |-> IdentifyQuickWins(G)]

\* -------------------------------------------------------------------------
\* WorkflowMapper.collect_employee_data
\* -------------------------------------------------------------------------

\* questionnaire responses: dicts with the keys daily_activities,
\* collaborations and pain_points, each optional
Responses ==
    {[department |-> "Finance"],
     [department |-> "Finance",
      daily_activities |-> <<[name |-> InvoiceApproval, duration |-> 2]>>],
     [daily_activities |-> <<[duration |-> 2]>>],
     [daily_activities |-> <<[name |-> SendInvoice]>>,
      collaborations |-> <<"Sales">>],
     [pain_points |-> <<[frequency |-> "weekly"]>>]}

\* the exception collect_employee_data ends with.  Line 72 calls
\* _create_workflow_node, which subscripts activity["name"] (line 108).
\* Line 78 calls self._map_collaboration for each collaboration and line 82
\* calls self._analyze_tool_usage on every path; WorkflowMapper defines
\* neither method, so a call that gets past line 72 ends at line 78 or 82
\* and the lines after 82 are never reached.
CollectEmployeeDataOutcome(responses) ==
    LET daily_activities == Get(responses, "daily_activities", <<>>)
    IN  IF \E i \in 1..Len(daily_activities) :
               "name" \notin DOMAIN daily_activities[i]
        THEN "KeyError"
        ELSE "AttributeError"

\* -------------------------------------------------------------------------
\* Initial state and operations
\* -------------------------------------------------------------------------

vars ==
    <<dependencies_graph, workflows, bottlenecks, redundancies, last_update,
      update_schedule, call, insights, report, lastBatch, passes, merged,
      listed, partial, since, solo, args, result>>

helperVars == <<args, result>>

mapperVars ==
    <<dependencies_graph, workflows, bottlenecks, redundancies, last_update,
      update_schedule>>

NoInsights == GenerateInsightsResult(EmptyGraph, <<>>, <<>>)

NoReport == [company_id |-> ""]

Call(op, raised, company, again) ==
    [op |-> op, raised |-> raised, company |-> company, again |-> again]

\* WorkflowMapper.__init__, lines 45-52
Init ==
    /\ dependencies_graph = EmptyGraph
    /\ workflows = EmptyDict
    /\ bottlenecks = <<>>
    /\ redundancies = <<>>
    /\ last_update = PyNone
    /\ update_schedule = <<>>
    /\ call = Call("init", "none", "", FALSE)
    /\ insights = NoInsights
    /\ report = NoReport
    /\ lastBatch = <<>>
    /\ passes = 0
    /\ merged = {}
    /\ listed = {}
    /\ partial = FALSE
    /\ since = {}
    /\ solo = [c \in Companies |-> EmptyGraph]
    /\ args = <<>>
    /\ result = PyNone

\* -------------------------------------------------------------------------
\* Operations of WorkflowMapper
\* -------------------------------------------------------------------------

\* _export_graph, lines 536-547, as stored in company_workflows (the node
\* and edge lists and the two counts)
ExportGraph(G) ==
    [nodes |-> G.node, edges |-> Edges(G),
     statistics |-> [total_nodes |-> Len(G.node),
                     total_edges |-> Len(Edges(G))]]

\* the dict map_company_workflows builds, lines 151-188 (the department,
\* cross-functional and key-process lists left out)
CompanyWorkflows(G, batch) ==
    [total_employees_surveyed |-> Len(batch), workflow_graph |-> ExportGraph(G)]

\* history of the workflows merged by a map_company_workflows call
MergedBy(r, batch) ==
    {<<Flatten(batch)[i].name, NodeIdOf(Flatten(batch)[i])>> : i \in 1..r.done}

ListedBy(r, batch) ==
    UNION {{<<dep, NodeIdOf(Flatten(batch)[i])>> :
               dep \in Range(Get(Flatten(batch)[i], "dependencies", <<>>))} :
           i \in 1..r.done}

\* the exception map_company_workflows ends with, re-raised at line 198
MapRaises(G, batch) == IF MapGraph(G, batch).raised THEN "KeyError" ELSE "none"

\* the effect of map_company_workflows(batch) on the mapper, lines 146-198
MapEffect(batch) ==
    LET r == MapGraph(dependencies_graph, batch)
    IN  /\ dependencies_graph' = r.graph
        /\ IF r.raised
           THEN UNCHANGED <<workflows, last_update>>
           ELSE /\ workflows' = CompanyWorkflows(r.graph, batch)
                /\ last_update' = "datetime"
        /\ lastBatch' = batch
        /\ passes' = passes + 1
        /\ merged' = merged \cup MergedBy(r, batch)
        /\ listed' = listed \cup ListedBy(r, batch)
        /\ partial' = (partial \/ (r.raised /\ r.done > 0))

\* map_company_workflows(all_employee_data)
MapCompanyWorkflows(batch) ==
    /\ passes < MaxPasses
    /\ MapEffect(batch)
    /\ call' = Call("map", MapRaises(dependencies_graph, batch), "",
                    passes > 0 /\ batch = lastBatch)
    /\ since' = {}
    /\ UNCHANGED <<bottlenecks, redundancies, update_schedule, insights,
                   report, solo>>
    /\ UNCHANGED helperVars

\* identify_bottlenecks()
IdentifyBottlenecks ==
    /\ bottlenecks' = IdentifyBottlenecksResult(dependencies_graph)
    /\ call' = Call("identify", "none", "", "identify" \in since)
    /\ since' = (since \cup {"identify"}) \ {"insights_last"}
    /\ UNCHANGED <<dependencies_graph, workflows, redundancies, last_update,
                   update_schedule, insights, report, lastBatch, passes,
                   merged, listed, partial, solo>>
    /\ UNCHANGED helperVars

\* detect_redundancies()
DetectRedundancies ==
    /\ redundancies' = DetectRedundanciesResult(dependencies_graph)
    /\ call' = Call("detect", "none", "", "detect" \in since)
    /\ since' = (since \cup {"detect"}) \ {"insights_last"}
    /\ UNCHANGED <<dependencies_graph, workflows, bottlenecks, last_update,
                   update_schedule, insights, report, lastBatch, passes,
                   merged, listed, partial, solo>>
    /\ UNCHANGED helperVars

\* generate_insights()
GenerateInsights ==
    /\ insights' =
           GenerateInsightsResult(dependencies_graph, bottlenecks, redundancies)
    /\ call' = Call("insights", "none", "", "insights_last" \in since)
    /\ since' = since \cup {"insights", "insights_last"}
    /\ UNCHANGED <<mapperVars, report, lastBatch, passes, merged, listed,
                   partial, solo>>
    /\ UNCHANGED helperVars

\* collect_employee_data(employee_id, questionnaire_responses)
CollectEmployeeData(responses) ==
    /\ call' = Call("collect", CollectEmployeeDataOutcome(responses), "", FALSE)
    /\ args' = <<responses>>
    /\ result' = PyNone
    /\ UNCHANGED <<mapperVars, insights, report, lastBatch, passes, merged,
                   listed, partial, since, solo>>

Next ==
    \/ \E batch \in Batches : MapCompanyWorkflows(batch)
    \/ IdentifyBottlenecks
    \/ DetectRedundancies
    \/ GenerateInsights

Spec == Init /\ [][Next]_vars

\* -------------------------------------------------------------------------
\* OtomConsultant: one WorkflowMapper, made in __init__ (line 67), serves
\* every company
\* -------------------------------------------------------------------------

\* schedule_monthly_updates, lines 549-567 (the date kept as a text)
ScheduleMonthlyUpdates(company_id) ==
    [company_id |-> company_id, frequency |-> "monthly",
     next_update |-> "now+30d", update_method |-> "progressive",
     departments_per_month |-> 2]

\* the categories _generate_workflow_recommendations lists, lines 550-601
GenerateWorkflowRecommendations(bs, rs, ins) ==
    (IF bs # <<>> THEN <<"Bottleneck Elimination">> ELSE <<>>)
        \o (IF rs # <<>> THEN <<"Process Consolidation">> ELSE <<>>)
        \o (IF ins.executive_summary.automation_opportunities > 0
            THEN <<"Process Automation">> ELSE <<>>)
        \o (IF ins.quick_wins # <<>> THEN <<"Quick Wins">> ELSE <<>>)

\* the dict analyze_company_workflows returns, lines 530-541 (the
\* visualizations and the date left out)
AnalysisReport(company_id, batch, wf, bs, rs, ins) ==
    [company_id |-> company_id,
     employees_surveyed |-> Len(batch),
     workflows_mapped |-> wf,
     bottlenecks |-> bs,
     redundancies |-> rs,
     insights |-> ins,
     update_schedule |-> ScheduleMonthlyUpdates(company_id),
     recommendations |-> GenerateWorkflowRecommendations(bs, rs, ins)]

\* the report analyze_company_workflows builds from a mapper whose graph is
\* G after the merge, lines 512-541
WorkflowAnalysis(company_id, batch, G) ==
    LET bs == IdentifyBottlenecksResult(G)
        rs == DetectRedundanciesResult(G)
    IN  AnalysisReport(company_id, batch, CompanyWorkflows(G, batch), bs, rs,
                       GenerateInsightsResult(G, bs, rs))

\* analyze_company_workflows(company_id, all_responses), lines 506-548: the
\* calls run in sequence with nothing awaited that suspends, each reading
\* what the one before stored in the mapper; an exception of
\* map_company_workflows ends the call at line 512
AnalyzeCompanyWorkflows(company_id, batch) ==
    /\ passes < MaxPasses
    /\ MapEffect(batch)
    /\ call' = Call("analyze", MapRaises(dependencies_graph, batch), company_id,
                    passes > 0 /\ batch = lastBatch)
    /\ solo' = [solo EXCEPT ![company_id] = MapGraph(@, batch).graph]
    /\ UNCHANGED helperVars
    /\ IF call'.raised # "none"
       THEN /\ since' = {}
            /\ UNCHANGED <<bottlenecks, redundancies, update_schedule,
                           insights, report>>
       ELSE /\ bottlenecks' = IdentifyBottlenecksResult(dependencies_graph')
            /\ redundancies' = DetectRedundanciesResult(dependencies_graph')
            /\ insights' =
                   GenerateInsightsResult(dependencies_graph', bottlenecks',
                                          redundancies')
            /\ update_schedule' = ScheduleMonthlyUpdates(company_id)
            /\ report' =
                   AnalysisReport(company_id, batch, workflows', bottlenecks',
                                  redundancies', insights')
            /\ since' = {"identify", "detect", "insights", "insights_last"}

\* process_workflow_questionnaire hands the processed responses to
\* collect_employee_data (line 489)
NextConsultant ==
    \/ \E company_id \in Companies, batch \in Batches :
            AnalyzeCompanyWorkflows(company_id, batch)
    \/ \E responses \in Responses : CollectEmployeeData(responses)

SpecConsultant == Init /\ [][NextConsultant]_vars

\* -------------------------------------------------------------------------
\* Properties
\* -------------------------------------------------------------------------

Graph == dependencies_graph

MergedIds == {m[2] : m \in merged}

\* C1: a map_company_workflows call with the batch of the call before it
\* leaves the node list, the attribute dicts and the edges as they were.
C1_ReingestIdempotent ==
    [][(call'.op = "map" /\ call'.again)
           => dependencies_graph' = dependencies_graph]_vars

\* a batch with a merge and edges has been ingested twice in a row
C1_Witness ==
    /\ call.op = "map" /\ call.again /\ call.raised = "none"
    /\ Len(Graph.node) >= 2 /\ EdgeSet(Graph) # {}

\* C2 as stated: all merged workflows of one name went to one node
C2_OneNodePerName ==
    \A m1 \in merged, m2 \in merged : m1[1] = m2[1] => m1[2] = m2[2]

\* C2 amended: no node id occurs twice in the node list, and every node id
\* that a workflow was merged under (its explicit id, or its name when it
\* has no id) has exactly one node, however often it was ingested.
C2_OneNodePerId ==
    /\ \A i \in 1..Len(Graph.node), j \in 1..Len(Graph.node) :
           Graph.node[i] = Graph.node[j] => i = j
    /\ \A id \in MergedIds :
           Cardinality({i \in 1..Len(Graph.node) : Graph.node[i] = id}) = 1

\* the workflows of a batch were merged a second time
C2_Witness ==
    call.op = "map" /\ call.again /\ call.raised = "none" /\ merged # {}

\* C4 as stated: after map_company_workflows(batch) the nodes and edges are
\* those a graph built from that batch alone has
C4_BuiltFresh ==
    call.op = "map" =>
        LET F == MapGraph(EmptyGraph, lastBatch).graph
        IN  NodeSet(Graph) = NodeSet(F) /\ EdgeSet(Graph) = EdgeSet(F)

\* C5 as stated: when a detector has read the graph, no batch is merged in
\* part
C5_NoPartialBatchSeen == call.op \in {"identify", "detect"} => ~partial

\* C6 amended: the three calls leave the graph as it is; identify_bottlenecks
\* and detect_redundancies called again with no map_company_workflows call
\* in between return what they returned before; generate_insights called
\* again with neither a map_company_workflows nor a detector call in between
\* returns what it returned before.
C6_DetectorsPureReads ==
    [][/\ call'.op \in {"identify", "detect", "insights"}
           => dependencies_graph' = dependencies_graph
       /\ (call'.op = "identify" /\ call'.again) => bottlenecks' = bottlenecks
       /\ (call'.op = "detect" /\ call'.again) => redundancies' = redundancies
       /\ (call'.op = "insights" /\ call'.again) => insights' = insights]_vars

\* C6 as stated, for generate_insights: called again with no
\* map_company_workflows call in between it returns what it returned before
C6_InsightsRepeatable ==
    [][(call'.op = "insights" /\ "insights" \in since)
           => insights' = insights]_vars

\* identify_bottlenecks ran again on a graph that has bottlenecks
C6_Witness ==
    call.op = "identify" /\ call.again /\ bottlenecks # <<>>

\* C8: the edges of the graph are the pairs <<dependency, node id>> that the
\* merged workflows listed, each exactly once.
C8_OneEdgePerDependency ==
    /\ EdgeSet(Graph) = listed
    /\ \A e \in listed :
           Cardinality({i \in 1..Len(Edges(Graph)) : Edges(Graph)[i] = e}) = 1

\* the workflow that lists one dependency twice was ingested twice
C8_Witness ==
    /\ call.op = "map" /\ call.again
    /\ <<InvoiceApproval, SendInvoice>> \in listed

\* C9: every key of the successor dict and every successor is a node with
\* an attribute dict.
C9_NoDanglingEndpoint ==
    /\ DOMAIN Graph.succ = NodeSet(Graph)
    /\ DOMAIN Graph.data = NodeSet(Graph)
    /\ \A u \in DOMAIN Graph.succ : Range(Graph.succ[u]) \subseteq NodeSet(Graph)

\* an edge starts at a node that only a dependency list named
C9_Witness ==
    \E n \in NodeSet(Graph) \ MergedIds : Graph.succ[n] # <<>>

\* C10 as stated: a node that only dependency lists named has duration 1,
\* frequency "daily" and department "unknown"
C10_StubDefaults ==
    \A n \in NodeSet(Graph) \ MergedIds :
        LET d == Graph.data[n]
        IN  /\ "duration" \in DOMAIN d /\ d.duration = 1
            /\ "frequency" \in DOMAIN d /\ d.frequency = "daily"
            /\ "department" \in DOMAIN d /\ d.department = "unknown"

\* C3 as stated: what analyze_company_workflows returns for a company, and
\* the graph it leaves, are those of a mapper that received only that
\* company's batches
C3_CompaniesIndependent ==
    (call.op = "analyze" /\ call.raised = "none") =>
        /\ dependencies_graph = solo[call.company]
        /\ report = WorkflowAnalysis(call.company, lastBatch, solo[call.company])

\* C7 as stated: collect_employee_data and map_company_workflows end
\* without an exception
C7_IngestionNeverRaises ==
    call.op \in {"collect", "map", "analyze"} => call.raised = "none"

\* -------------------------------------------------------------------------
\* Ingestion of activities whose names differ in letter case and of
\* activities that carry owner, tools and pain points
\* -------------------------------------------------------------------------

\* the batches of at most MaxActs workflows drawn from the set W
BatchesOf(W) ==
    {b \in SeqUpTo({[workflows |-> ws] : ws \in SeqUpTo(W, MaxActs) \ {<<>>}},
                   MaxActs) :
        SumLen([i \in 1..Len(b) |-> b[i].workflows]) <= MaxActs}

LowerInvoiceApproval == <<"invoice", " ", "approval">>

WfApprovalLower ==
    [name |-> LowerInvoiceApproval, department |-> "Finance",
     duration_hours |-> 2, frequency |-> "daily", dependencies |-> <<>>]
WfApprovalAnn ==
    [name |-> InvoiceApproval, department |-> "Finance", owner |-> "ann",
     duration_hours |-> 2, frequency |-> "daily", tools |-> <<"excel">>,
     pain_points |-> <<"slow">>]
WfApprovalBob ==
    [name |-> InvoiceApproval, department |-> "Sales", owner |-> "bob",
     duration_hours |-> 3, frequency |-> "weekly", tools |-> <<"sap">>,
     pain_points |-> <<"manual">>]

\* two records of "Send Invoices": in the department of WfSend, and in
\* another department
WfSendInvoices ==
    [name |-> <<"Send", " ", "Invoices">>, department |-> "Sales"]
WfSendInvoicesFinance ==
    [name |-> <<"Send", " ", "Invoices">>, department |-> "Finance"]

IngestWorkflows ==
    {WfApproval, WfApprovalLower, WfApprovalAnn, WfApprovalBob, WfSend,
     WfSendInvoices, WfSendInvoicesFinance}

IngestBatches == BatchesOf(IngestWorkflows)

NextIngest ==
    \/ \E batch \in IngestBatches : MapCompanyWorkflows(batch)
    \/ DetectRedundancies

SpecIngest == Init /\ [][NextIngest]_vars

\* str.replace(' ', '_')
Replace(str) == [i \in 1..Len(str) |-> IF str[i] = " " THEN "_" ELSE str[i]]

\* line 108: activity['name'].replace(' ', '_').lower()
NormalizedName(name) == Lower(Replace(name))

\* C11: two ingested activities without explicit id whose names have the
\* same normalized form (lower case, spaces as underscores) are merged
\* into the same graph node.
C11_NormalizedNamesMerge ==
    \A m1 \in merged, m2 \in merged :
        (/\ m1[2] = m1[1] /\ m2[2] = m2[1]
         /\ NormalizedName(m1[1]) = NormalizedName(m2[1]))
            => m1[2] = m2[2]

\* the positions in ws of the workflows that resolve to the node id of ws[i]
SameNode(ws, i) == {j \in 1..Len(ws) : NodeIdOf(ws[j]) = NodeIdOf(ws[i])}

\* the latest of a non-empty set of positions
Latest(S) == CHOOSE j \in S : \A k \in S : k <= j

\* C12: after the first batch is merged, each node carries the department,
\* owner, duration, frequency and tools of the latest record ingested for
\* it and the union of the pain points of all its records.
C12_MergeOverwritesAndUnions ==
    (call.op = "map" /\ call.raised = "none" /\ passes = 1) =>
        LET ws == Flatten(lastBatch)
        IN  \A i \in 1..Len(ws) :
                LET d == Graph.data[NodeIdOf(ws[i])]
                    later == ws[Latest(SameNode(ws, i))]
                    pains == UNION {Range(Get(ws[j], "pain_points", <<>>)) :
                                       j \in SameNode(ws, i)}
                IN  /\ \A k \in {"department", "owner", "frequency", "tools"} :
                           k \in DOMAIN later =>
                               k \in DOMAIN d /\ d[k] = later[k]
                    /\ "duration_hours" \in DOMAIN later =>
                           d.duration = later.duration_hours
                    /\ pains # {} =>
                           /\ "pain_points" \in DOMAIN d
                           /\ Range(d.pain_points) = pains

\* -------------------------------------------------------------------------
\* WorkflowMapper._calculate_automation_potential
\* -------------------------------------------------------------------------

FracMax(p, q) == IF FracGt(p, q) THEN p ELSE q

FlagKeys ==
    {"repetitive", "digital", "rule_based", "requires_judgment", "creative"}

\* activity dicts: each flag absent, False or True
Activities == UNION {[K -> BOOLEAN] : K \in SUBSET FlagKeys}

\* score += num/10 when activity.get(k, False) is true (num < 0 for -=)
AddIfFlag(score, activity, k, num) ==
    IF Get(activity, k, FALSE) THEN FracAdd(score, Frac(num, 10)) ELSE score

\* the score before the clamp, lines 122-142
AutomationScore(activity) ==
    LET s1 == AddIfFlag(<<0, 1>>, activity, "repetitive", 3)
        s2 == AddIfFlag(s1, activity, "digital", 3)
        s3 == AddIfFlag(s2, activity, "rule_based", 2)
        s4 == AddIfFlag(s3, activity, "requires_judgment", -3)
    IN  AddIfFlag(s4, activity, "creative", -2)

\* variant of CalculateAutomationPotential: the score is returned as it is
CalculateAutomationPotentialUnclamped(activity) == AutomationScore(activity)

\* line 144: max(0.0, min(1.0, score))
CalculateAutomationPotential(activity) ==
    FracMax(<<0, 1>>, FracMin(<<1, 1>>, AutomationScore(activity)))

\* the call _calculate_automation_potential(activity) on the activity held
\* in args
CalcAutomationPotential ==
    /\ call.op = "init" /\ Len(args) = 1
    /\ result' = CalculateAutomationPotential(args[1])
    /\ call' = Call("automation", "none", "", FALSE)
    /\ UNCHANGED <<mapperVars, insights, report, lastBatch, passes, merged,
                   listed, partial, since, solo, args>>

\* the weight in tenths that flag k contributes for the latest arguments
Tenths(k, weight) == IF Get(args[1], k, FALSE) THEN weight ELSE 0

FlagSum ==
    Tenths("repetitive", 3) + Tenths("digital", 3) + Tenths("rule_based", 2)
        - Tenths("requires_judgment", 3) - Tenths("creative", 2)

\* C13: for every combination of the five flags the automation potential is
\* clamp(0.3 repetitive + 0.3 digital + 0.2 rule_based - 0.3 requires_judgment
\* - 0.2 creative, 0, 1) and lies in [0, 1].
C13_AutomationPotentialClamped ==
    call.op = "automation" =>
        /\ result = Frac(IF FlagSum < 0 THEN 0
                         ELSE IF FlagSum > 10 THEN 10 ELSE FlagSum, 10)
        /\ ~FracGt(<<0, 1>>, result)
        /\ ~FracGt(result, <<1, 1>>)

\* a call whose flags sum below zero, so that the clamp acts
C13_Witness ==
    /\ call.op = "automation"
    /\ FlagSum < 0
    /\ result = <<0, 1>>

\* -------------------------------------------------------------------------
\* WorkflowMapper._calculate_similarity on pairs of attribute dicts
\* -------------------------------------------------------------------------

SendInvoices == <<"Send", " ", "Invoices">>
SendSend == <<"Send", " ", "Send">>

\* the dicts that hold key k with a value of S, and the dict without k
Optional(k, S) == {EmptyDict} \cup {[x \in {k} |-> v] : v \in S}

\* node attribute dicts: name, department and duration each absent or set
NodeRecords ==
    {DictUpdate(DictUpdate(n, d), u) :
        n \in Optional("name", {EmptyStr, <<"Send">>, SendInvoice, SendInvoices,
                                InvoiceApproval, SendSend}),
        d \in Optional("department", {"Finance", "Sales"}),
        u \in Optional("duration", 0..3)}

\* the call _calculate_similarity(node1_data, node2_data) on the two dicts
\* held in args
CalcSimilarity ==
    /\ call.op = "init" /\ Len(args) = 2
    /\ result' = CalculateSimilarity(args[1], args[2])
    /\ call' = Call("similarity", "none", "", FALSE)
    /\ UNCHANGED <<mapperVars, insights, report, lastBatch, passes, merged,
                   listed, partial, since, solo, args>>

\* a fresh mapper and the arguments of one helper call
InitHelpers ==
    /\ dependencies_graph = EmptyGraph
    /\ workflows = EmptyDict
    /\ bottlenecks = <<>>
    /\ redundancies = <<>>
    /\ last_update = PyNone
    /\ update_schedule = <<>>
    /\ call = Call("init", "none", "", FALSE)
    /\ insights = NoInsights
    /\ report = NoReport
    /\ lastBatch = <<>>
    /\ passes = 0
    /\ merged = {}
    /\ listed = {}
    /\ partial = FALSE
    /\ since = {}
    /\ solo = [c \in Companies |-> EmptyGraph]
    /\ args \in {<<activity>> : activity \in Activities}
                 \cup (NodeRecords \X NodeRecords)
    /\ result = PyNone

NextHelpers == CalcAutomationPotential \/ CalcSimilarity

SpecHelpers == InitHelpers /\ [][NextHelpers]_vars

\* C18: the similarity of (A, B) equals the similarity of (B, A).
C18_SimilaritySymmetric ==
    call.op = "similarity" => result = CalculateSimilarity(args[2], args[1])

\* a call on two dicts that differ in name and duration, with a score
\* strictly between 0 and 1
C18_Witness ==
    /\ call.op = "similarity"
    /\ Get(args[1], "name", EmptyStr) # Get(args[2], "name", EmptyStr)
    /\ Get(args[1], "duration", 0) # Get(args[2], "duration", 0)
    /\ FracGt(result, <<0, 1>>)
    /\ FracGt(<<1, 1>>, result)

\* the lower-cased words of the name of the i-th argument
ArgWords(i) == Split(Lower(Get(args[i], "name", EmptyStr)))

\* common words over the larger word count, 0 when there is no common word
NameOverlap ==
    LET common == Range(ArgWords(1)) \cap Range(ArgWords(2))
    IN  IF common = {} THEN <<0, 1>>
        ELSE Frac(Cardinality(common), Max(Len(ArgWords(1)), Len(ArgWords(2))))

SameDepartment ==
    IF Get(args[1], "department", PyNone) = Get(args[2], "department", PyNone)
    THEN <<2, 10>> ELSE <<0, 1>>

\* 0.3 * (1 - |d1 - d2| / max(d1, d2)) when both durations are nonzero
DurationCloseness ==
    LET d1 == Get(args[1], "duration", 0)
        d2 == Get(args[2], "duration", 0)
    IN  IF d1 = 0 \/ d2 = 0 THEN <<0, 1>>
        ELSE FracMul(<<3, 10>>,
                     FracAdd(<<1, 1>>, Frac(-Abs(d1 - d2), Max(d1, d2))))

\* C19: the similarity lies in [0, 1] and equals min(1, name overlap + 0.2
\* for the same department + 0.3 (1 - |d1 - d2| / max(d1, d2)) for two
\* nonzero durations).
C19_SimilarityFormula ==
    call.op = "similarity" =>
        /\ result = FracMin(FracAdd(FracAdd(NameOverlap, SameDepartment),
                                    DurationCloseness),
                            <<1, 1>>)
        /\ ~FracGt(<<0, 1>>, result)
        /\ ~FracGt(result, <<1, 1>>)

\* a call where the three terms sum above 1, so that the clamp acts
C19_Witness ==
    /\ call.op = "similarity"
    /\ FracGt(NameOverlap, <<0, 1>>)
    /\ FracGt(SameDepartment, <<0, 1>>)
    /\ FracGt(DurationCloseness, <<0, 1>>)
    /\ FracGt(FracAdd(FracAdd(NameOverlap, SameDepartment), DurationCloseness),
              <<1, 1>>)
    /\ result = <<1, 1>>

\* -------------------------------------------------------------------------
\* identify_bottlenecks on graphs with a hub, a node of many dependencies,
\* approval names and a department named "unknown"
\* -------------------------------------------------------------------------

Review == <<"Review">>
UpperApproval == <<"APPROVAL">>

\* the hub: three dependencies that no workflow describes
WfReview ==
    [name |-> Review, department |-> "Ops",
     dependencies |-> <<(<<"p1">>), <<"p2">>, <<"p3">>>>]
WfUpperApproval ==
    [name |-> UpperApproval, department |-> "Ops",
     dependencies |-> <<Review>>]
WfSendAfter ==
    [name |-> <<"Send">>, department |-> "Sales",
     dependencies |-> <<UpperApproval>>]
WfPreApprovals ==
    [name |-> <<"PreApprovals">>, department |-> "unknown",
     dependencies |-> <<UpperApproval>>]
\* five dependencies, and a later record of the same activity with a sixth
WfManyFive ==
    [name |-> <<"Many">>, department |-> "Ops",
     dependencies |-> <<(<<"p1">>), <<"p2">>, <<"p3">>, <<"q1">>, <<"q2">>>>]
WfManySixth ==
    [name |-> <<"Many">>, department |-> "Ops",
     dependencies |-> <<(<<"q3">>)>>]
\* an explicit id that contains "approval" under a name that does not
WfIdApproval ==
    [id |-> <<"approval">>, name |-> <<"Send">>, department |-> "Ops"]

BottleneckWorkflows ==
    {WfReview, WfUpperApproval, WfSendAfter, WfPreApprovals, WfManyFive,
     WfManySixth, WfIdApproval}

BottleneckBatches == BatchesOf(BottleneckWorkflows)

NextBottlenecks ==
    \/ \E batch \in BottleneckBatches : MapCompanyWorkflows(batch)
    \/ IdentifyBottlenecks

SpecBottlenecks == Init /\ [][NextBottlenecks]_vars

\* the positions in self.bottlenecks of the entries of a type for a node id
EntriesOf(type, node_id) ==
    {i \in 1..Len(bottlenecks) :
        bottlenecks[i].type = type /\ bottlenecks[i].node_id = node_id}

\* the node ids of the entries of a type
EntryIds(type) ==
    {bottlenecks[i].node_id :
        i \in {j \in 1..Len(bottlenecks) : bottlenecks[j].type = type}}

C15_DependencyPass ==
    call.op = "identify" =>
        /\ EntryIds("dependency") \subseteq NodeSet(Graph)
        /\ \A n \in NodeSet(Graph) :
               LET d == InDegree(Graph, n)
               IN  /\ Cardinality(EntriesOf("dependency", n))
                          = IF d > 5 THEN 1 ELSE 0
                   /\ \A i \in EntriesOf("dependency", n) :
                          /\ bottlenecks[i].severity
                                 = (IF d >= 10 THEN <<1, 1>> ELSE Frac(d, 10))
                          /\ bottlenecks[i].estimated_savings_hours = <<2 * d, 1>>
                          /\ d = 6 =>
                                 /\ bottlenecks[i].severity = <<3, 5>>
                                 /\ bottlenecks[i].estimated_savings_hours
                                        = <<12, 1>>

\* identify_bottlenecks has flagged a node of in-degree 6
C15_Witness ==
    /\ call.op = "identify"
    /\ \E n \in NodeSet(Graph) :
           InDegree(Graph, n) = 6 /\ EntriesOf("dependency", n) # {}

\* the atoms that contain "approval" in some letter case
ApprovalAtoms == {"Approval", "approval", "APPROVAL", "PreApprovals"}

\* C16: after identify_bottlenecks a node has one approval entry, of
\* severity 0.7 and 10 hours, when its name contains "approval" in any
\* letter case and none otherwise, whatever its id, department and degree.
C16_ApprovalPass ==
    call.op = "identify" =>
        /\ EntryIds("approval") \subseteq NodeSet(Graph)
        /\ \A n \in NodeSet(Graph) :
               LET named ==
                       /\ "name" \in DOMAIN Graph.data[n]
                       /\ \E i \in 1..Len(Graph.data[n].name) :
                              Graph.data[n].name[i] \in ApprovalAtoms
               IN  /\ Cardinality(EntriesOf("approval", n))
                          = IF named THEN 1 ELSE 0
                   /\ \A i \in EntriesOf("approval", n) :
                          /\ bottlenecks[i].severity = <<7, 10>>
                          /\ bottlenecks[i].estimated_savings_hours = <<10, 1>>

\* identify_bottlenecks has flagged the node named APPROVAL and has not
\* flagged the node whose id, but not its name, contains "approval"
C16_Witness ==
    /\ call.op = "identify"
    /\ EntriesOf("approval", UpperApproval) # {}
    /\ <<"approval">> \in NodeSet(Graph)
    /\ EntriesOf("approval", <<"approval">>) = {}

\* the department of a node, "unknown" for a node that carries none
DepartmentOrUnknown(n) ==
    LET dept == Get(Graph.data[n], "department", PyNone)
    IN  IF dept = PyNone THEN "unknown" ELSE dept

\* C17: after identify_bottlenecks every edge whose endpoints are in
\* different departments (a node without department counting as "unknown")
\* has one handoff entry "{from}_to_{to}" of severity 0.6 and 5 hours, and
\* an edge within one department has none.
C17_HandoffPass ==
    call.op = "identify" =>
        \A e \in EdgeSet(Graph) :
            LET id == e[1] \o <<"_to_">> \o e[2]
            IN  /\ Cardinality(EntriesOf("handoff", id))
                       = IF DepartmentOrUnknown(e[1]) # DepartmentOrUnknown(e[2])
                         THEN 1 ELSE 0
                /\ \A i \in EntriesOf("handoff", id) :
                       /\ bottlenecks[i].severity = <<6, 10>>
                       /\ bottlenecks[i].estimated_savings_hours = <<5, 1>>

\* the positions in self.redundancies of the duplicate_process entries for
\* the unordered pair of nodes a, b
DuplicateEntries(a, b) ==
    {k \in 1..Len(redundancies) :
        /\ redundancies[k].type = "duplicate_process"
        /\ Range(redundancies[k].nodes) = {a, b}}

\* C20: after detect_redundancies every unordered pair of distinct nodes
\* has one duplicate_process entry when its similarity is above 0.8 and
\* none otherwise (none at 0.8); the entry lists the pair in node order and
\* has estimated_waste_hours 4 times the duration of its first node.  The
\* nodes "Send Invoice" and "Send Invoices" of one department and equal
\* duration are reported.
C20_DuplicatePass ==
    call.op = "detect" =>
        /\ \A k \in 1..Len(redundancies) :
               redundancies[k].type = "duplicate_process" =>
                   /\ Len(redundancies[k].nodes) = 2
                   /\ Range(redundancies[k].nodes) \subseteq NodeSet(Graph)
                   /\ redundancies[k].nodes[1] # redundancies[k].nodes[2]
        /\ \A i \in 1..Len(Graph.node), j \in 1..Len(Graph.node) :
               i < j =>
                   LET a == Graph.node[i]
                       b == Graph.node[j]
                       similarity ==
                           CalculateSimilarity(Graph.data[a], Graph.data[b])
                   IN  /\ Cardinality(DuplicateEntries(a, b))
                              = IF FracGt(similarity, <<8, 10>>) THEN 1 ELSE 0
                       /\ \A k \in DuplicateEntries(a, b) :
                              /\ redundancies[k].nodes = <<a, b>>
                              /\ redundancies[k].estimated_waste_hours
                                     = 4 * Get(Graph.data[a], "duration", 1)
        /\ (/\ {SendInvoice, SendInvoices} \subseteq NodeSet(Graph)
            /\ "name" \in DOMAIN Graph.data[SendInvoice]
            /\ Graph.data[SendInvoice].department
                   = Graph.data[SendInvoices].department
            /\ Graph.data[SendInvoice].duration
                   = Graph.data[SendInvoices].duration)
               => DuplicateEntries(SendInvoice, SendInvoices) # {}

\* detect_redundancies has reported "Send Invoice" and "Send Invoices" as
\* duplicates
C20_Witness ==
    /\ call.op = "detect"
    /\ \E k \in DuplicateEntries(SendInvoice, SendInvoices) :
           redundancies[k].estimated_waste_hours = 4

\* -------------------------------------------------------------------------
\* detect_redundancies on graphs with circular dependencies
\* -------------------------------------------------------------------------

NodeA == <<"A">>
NodeB == <<"B">>
NodeC == <<"C">>

\* a dependency d of workflow w is the edge d -> w (line 215)
WfAAfterC == [name |-> NodeA, dependencies |-> <<NodeC>>]
WfBAfterA == [name |-> NodeB, dependencies |-> <<NodeA>>]
WfCAfterB == [name |-> NodeC, dependencies |-> <<NodeB>>]
WfAAfterB == [name |-> NodeA, dependencies |-> <<NodeB>>]
WfBAfterC == [name |-> NodeB, dependencies |-> <<NodeC>>]
WfAAfterA == [name |-> NodeA, dependencies |-> <<NodeA>>]

CycleWorkflows ==
    {WfAAfterC, WfBAfterA, WfCAfterB, WfAAfterB, WfBAfterC, WfAAfterA}

CycleBatches == BatchesOf(CycleWorkflows)

NextCycles ==
    \/ \E batch \in CycleBatches : MapCompanyWorkflows(batch)
    \/ DetectRedundancies

SpecCycles == Init /\ [][NextCycles]_vars

\* p is a simple directed cycle of the graph: distinct nodes, an edge from
\* each node to the next and from the last to the first
IsSimpleCycle(p) ==
    /\ Len(p) >= 1
    /\ \A i \in 1..Len(p) : p[i] \in NodeSet(Graph)
    /\ \A i, j \in 1..Len(p) : p[i] = p[j] => i = j
    /\ \A i \in 1..Len(p) : <<p[i], p[(i % Len(p)) + 1]>> \in EdgeSet(Graph)

\* the node sequences that list the cycle p from any of its nodes
Rotations(p) ==
    {[i \in 1..Len(p) |-> p[((i + k - 1) % Len(p)) + 1]] : k \in 0..(Len(p) - 1)}

\* every simple cycle of the graph, listed from each of its nodes
SimpleCyclePaths ==
    {p \in SeqUpTo(NodeSet(Graph), Len(Graph.node)) : IsSimpleCycle(p)}

\* the positions in self.redundancies of the circular_dependency entries
CircularEntries ==
    {i \in 1..Len(redundancies) : redundancies[i].type = "circular_dependency"}

\* C21: after detect_redundancies every circular_dependency entry lists a
\* simple directed cycle of the graph and has estimated_waste_hours
\* 3 * cycle length, and every simple cycle (self-loops included) is listed
\* by exactly one entry; an acyclic graph has no such entry.
C21_CyclesOnce ==
    call.op = "detect" =>
        /\ \A i \in CircularEntries :
               /\ IsSimpleCycle(redundancies[i].nodes)
               /\ redundancies[i].estimated_waste_hours =
                      3 * Len(redundancies[i].nodes)
        /\ \A p \in SimpleCyclePaths :
               Cardinality({i \in CircularEntries :
                               redundancies[i].nodes \in Rotations(p)}) = 1
        /\ (SimpleCyclePaths = {} => CircularEntries = {})

\* edges A->B->C->A and no others: one entry of length 3 with 9 hours
C21_Witness ==
    /\ call.op = "detect"
    /\ EdgeSet(Graph) = {<<NodeA, NodeB>>, <<NodeB, NodeC>>, <<NodeC, NodeA>>}
    /\ Cardinality(CircularEntries) = 1
    /\ \A i \in CircularEntries :
           /\ Len(redundancies[i].nodes) = 3
           /\ redundancies[i].estimated_waste_hours = 9

\* a self-loop beside one other cycle: two entries
C21_WitnessSelfLoop ==
    /\ call.op = "detect"
    /\ <<NodeA, NodeA>> \in EdgeSet(Graph)
    /\ Cardinality(CircularEntries) = 2

\* -------------------------------------------------------------------------
\* The mapper on empty input
\* -------------------------------------------------------------------------

\* the mapper has ingested, and nothing but batches without a workflow
\* that was merged, the latest being the empty list
OnlyEmptyIngested == passes > 0 /\ merged = {} /\ lastBatch = <<>>

\* C22: on a mapper that ingested only an empty batch no call raises, the
\* graph has no nodes and no edges, identify_bottlenecks and
\* detect_redundancies return empty lists, and generate_insights reports
\* zero counts, zero savings, no department entry and no quick win.
C22_EmptyInput ==
    OnlyEmptyIngested =>
        /\ call.raised = "none"
        /\ Graph.node = <<>>
        /\ Edges(Graph) = <<>>
        /\ workflows.workflow_graph.statistics =
               [total_nodes |-> 0, total_edges |-> 0]
        /\ (call.op = "identify" => bottlenecks = <<>>)
        /\ (call.op = "detect" => redundancies = <<>>)
        /\ (call.op = "insights" =>
               /\ insights.executive_summary =
                      [bottlenecks_found |-> 0, redundancies_found |-> 0,
                       potential_time_savings |-> 0,
                       potential_cost_savings |-> 0,
                       automation_opportunities |-> 0]
               /\ DOMAIN insights.department_specific = {}
               /\ insights.quick_wins = <<>>)

\* generate_insights after both detectors ran on the empty graph
C22_Witness ==
    /\ OnlyEmptyIngested
    /\ call.op = "insights"
    /\ {"identify", "detect"} \subseteq since

\* -------------------------------------------------------------------------
\* OtomConsultant.get_workflow_update and the reports of
\* analyze_company_workflows on graphs with bottlenecks of every type
\* -------------------------------------------------------------------------

\* what get_workflow_update ends with, lines 607-634: the dict it returns
\* (the date and the fixed improvements left out) or the exception it
\* re-raises.  Line 626 hands self.workflow_mapper.last_update, the
\* datetime stored at workflow_mapper.py:191, to datetime.fromisoformat,
\* which takes a str and raises TypeError for anything else; line 634 calls
\* .get on update_schedule, which is the list of __init__ until
\* schedule_monthly_updates has stored a dict.
GetWorkflowUpdateOutcome(company_id) ==
    IF workflows = EmptyDict
    THEN [raised |-> "none",
          value |-> [status |-> "No workflow data available"]]
    ELSE IF last_update # PyNone
    THEN [raised |-> "TypeError", value |-> PyNone]
    ELSE IF update_schedule = <<>>
    THEN [raised |-> "AttributeError", value |-> PyNone]
    ELSE [raised |-> "none",
          value |-> [company_id |-> company_id,
                     current_bottlenecks |-> Len(bottlenecks),
                     next_update_scheduled |-> update_schedule.next_update]]

\* get_workflow_update(company_id)
GetWorkflowUpdate(company_id) ==
    /\ call' = Call("update", GetWorkflowUpdateOutcome(company_id).raised,
                    company_id, FALSE)
    /\ result' = GetWorkflowUpdateOutcome(company_id).value
    /\ UNCHANGED <<mapperVars, insights, report, lastBatch, passes, merged,
                   listed, partial, since, solo, args>>

\* a record of Review that closes the cycle Review -> APPROVAL -> Send
WfReviewAfterSend ==
    [name |-> Review, department |-> "Ops", dependencies |-> <<(<<"Send">>)>>]

ReportWorkflows ==
    {WfUpperApproval, WfSendAfter, WfPreApprovals, WfReviewAfterSend}

ReportBatches == BatchesOf(ReportWorkflows)

NextReports ==
    \/ \E batch \in ReportBatches : AnalyzeCompanyWorkflows("acme", batch)
    \/ \E company_id \in Companies : GetWorkflowUpdate(company_id)

SpecReports == Init /\ [][NextReports]_vars

\* the latest call is an analyze_company_workflows that returned its report
Reported == call.op = "analyze" /\ call.raised = "none"

\* sum of estimated_savings_hours over the bottlenecks of the report
ReportedSavings ==
    FracSum([i \in 1..Len(report.bottlenecks) |->
                report.bottlenecks[i].estimated_savings_hours],
            1..Len(report.bottlenecks))

\* k is the integer nearest to the fraction x, the even one at a tie
Nearest(k, x) ==
    LET twice == 2 * Abs(x[1] - k * x[2])
    IN  twice < x[2] \/ (twice = x[2] /\ k % 2 = 0)

\* the counts of the executive summary agree with the lists and the graph
SummaryCounts ==
    LET summary == report.insights.executive_summary
    IN  /\ summary.bottlenecks_found = Len(report.bottlenecks)
        /\ summary.redundancies_found = Len(report.redundancies)
        /\ summary.automation_opportunities =
               Cardinality({n \in NodeSet(Graph) :
                   /\ "automation_potential" \in DOMAIN Graph.data[n]
                   /\ FracGt(Graph.data[n].automation_potential, <<7, 10>>)})

\* C23 as stated: in every report the summary's counts agree with the lists,
\* the weekly savings is the sum of estimated_savings_hours over the
\* returned bottlenecks and the yearly cost is that sum times 50 times 52.
C23_SummaryIsSum ==
    Reported =>
        LET summary == report.insights.executive_summary
        IN  /\ SummaryCounts
            /\ FracOfInt(summary.potential_time_savings) = ReportedSavings
            /\ FracOfInt(summary.potential_cost_savings) =
                   FracMul(ReportedSavings, <<50 * 52, 1>>)

\* C23 amended: in every report the summary's counts agree with the lists,
\* the weekly savings shown is the sum of estimated_savings_hours rounded
\* to the nearest integer, and the yearly cost shown is the unrounded sum
\* times 50 times 52, rounded to the nearest integer.
C23_SummaryIsRoundedSum ==
    Reported =>
        LET summary == report.insights.executive_summary
        IN  /\ SummaryCounts
            /\ Nearest(summary.potential_time_savings, ReportedSavings)
            /\ Nearest(summary.potential_cost_savings,
                       FracMul(ReportedSavings, <<50 * 52, 1>>))

\* a report whose savings sum is not an integer
C23_Witness ==
    /\ Reported
    /\ ReportedSavings[2] # 1
    /\ Len(report.bottlenecks) > 1

\* -------------------------------------------------------------------------
\* generate_insights on graphs with stub nodes, nodes without department,
\* a department named "unknown", a node named by two bottleneck entries and
\* activities that carry automation flags
\* -------------------------------------------------------------------------

\* a record of Review without department, with the flags of a fully
\* automatable activity and the automation_potential of a WorkflowNode
WfReviewFlagged ==
    [name |-> Review, duration_hours |-> 2, frequency |-> "weekly",
     repetitive |-> TRUE, digital |-> TRUE, rule_based |-> TRUE,
     automation_potential |-> <<8, 10>>]
\* the same flags on an activity with a department and no dependencies
WfApprovalFlagged ==
    [name |-> InvoiceApproval, department |-> "Finance", duration_hours |-> 3,
     repetitive |-> TRUE, digital |-> TRUE, rule_based |-> TRUE,
     automation_potential |-> <<8, 10>>]

InsightWorkflows ==
    {WfUpperApproval, WfSendAfter, WfPreApprovals, WfReviewFlagged,
     WfApprovalFlagged}

InsightBatches == BatchesOf(InsightWorkflows)

NextInsights ==
    \/ \E batch \in InsightBatches : MapCompanyWorkflows(batch)
    \/ IdentifyBottlenecks
    \/ GenerateInsights

SpecInsights == Init /\ [][NextInsights]_vars

\* the departments that appear on a graph node
NodeDepartments ==
    {Graph.data[n].department :
        n \in {m \in NodeSet(Graph) :
                  /\ "department" \in DOMAIN Graph.data[m]
                  /\ Graph.data[m].department # PyNone}}

\* the nodes of department d
NodesOf(d) ==
    {n \in NodeSet(Graph) :
        "department" \in DOMAIN Graph.data[n] /\ Graph.data[n].department = d}

\* the nodes that carry an automation_potential above num/10
PotentialAbove(num) ==
    {n \in NodeSet(Graph) :
        /\ "automation_potential" \in DOMAIN Graph.data[n]
        /\ FracGt(Graph.data[n].automation_potential, <<num, 10>>)}

\* C24: after generate_insights every department d that appears on a graph
\* node has a rollup with total_processes = number of nodes of d,
\* bottlenecks = number of nodes of d named by the node_id of at least one
\* bottleneck, automation_candidates = number of nodes of d with
\* automation_potential > 0.7 and weekly_hours = sum of duration * 5 over
\* the nodes of d.
C24_DepartmentRollup ==
    call.op = "insights" =>
        \A d \in NodeDepartments :
            /\ d \in DOMAIN insights.department_specific
            /\ LET rollup == insights.department_specific[d]
               IN  /\ rollup.total_processes = Cardinality(NodesOf(d))
                   /\ rollup.bottlenecks =
                          Cardinality({n \in NodesOf(d) :
                              \E i \in 1..Len(bottlenecks) :
                                  bottlenecks[i].node_id = n})
                   /\ rollup.automation_candidates =
                          Cardinality(NodesOf(d) \cap PotentialAbove(7))
                   /\ rollup.weekly_hours =
                          IntSum([n \in NodesOf(d) |->
                                     Graph.data[n].duration * 5],
                                 NodesOf(d))

\* -------------------------------------------------------------------------
\* _identify_quick_wins as a function of the graph.  No operation of the
\* mapper stores automation_potential on a node, so the graphs that carry
\* the attribute are drawn directly: six nodes, each a stub or a node with
\* a potential of 0.8, 0.9 or 1.0, without edges or with edges that give
\* n2 one and n3 two predecessors.
\* -------------------------------------------------------------------------

QuickWinNodes ==
    <<(<<"n1">>), <<"n2">>, <<"n3">>, <<"n4">>, <<"n5">>, <<"n6">>>>

QuickWinData ==
    {EmptyDict,
     [automation_potential |-> <<8, 10>>, duration |-> 2],
     [automation_potential |-> <<9, 10>>, duration |-> 2],
     [name |-> SendInvoice, automation_potential |-> <<1, 1>>]}

NoSuccessors == [n \in Range(QuickWinNodes) |-> <<>>]

QuickWinSuccessors ==
    {NoSuccessors,
     [NoSuccessors EXCEPT ![<<"n1">>] = <<(<<"n2">>), <<"n3">>>>,
                          ![<<"n2">>] = <<(<<"n3">>)>>]}

QuickWinGraphs ==
    {[node |-> QuickWinNodes, data |-> data, succ |-> succ] :
        data \in [Range(QuickWinNodes) -> QuickWinData],
        succ \in QuickWinSuccessors}

InitQuickWins ==
    /\ dependencies_graph \in QuickWinGraphs
    /\ workflows = EmptyDict
    /\ bottlenecks = <<>>
    /\ redundancies = <<>>
    /\ last_update = PyNone
    /\ update_schedule = <<>>
    /\ call = Call("init", "none", "", FALSE)
    /\ insights = NoInsights
    /\ report = NoReport
    /\ lastBatch = <<>>
    /\ passes = 0
    /\ merged = {}
    /\ listed = {}
    /\ partial = FALSE
    /\ since = {}
    /\ solo = [c \in Companies |-> EmptyGraph]
    /\ args = <<>>
    /\ result = PyNone

\* the call _identify_quick_wins()
CallIdentifyQuickWins ==
    /\ call.op = "init"
    /\ result' = IdentifyQuickWins(dependencies_graph)
    /\ call' = Call("quick_wins", "none", "", FALSE)
    /\ UNCHANGED <<mapperVars, insights, report, lastBatch, passes, merged,
                   listed, partial, since, solo, args>>

NextQuickWins == CallIdentifyQuickWins

SpecQuickWins == InitQuickWins /\ [][NextQuickWins]_vars

\* the nodes with automation_potential > 0.8 and fewer than two
\* predecessors, in graph node order
Qualifying ==
    LET Predecessors(n) == {u \in NodeSet(Graph) : n \in Range(Graph.succ[u])}
        Test(n) == n \in PotentialAbove(8) /\ Cardinality(Predecessors(n)) < 2
    IN  SelectSeq(Graph.node, Test)

C25_WitnessInDegree ==
    /\ call.op = "quick_wins"
    /\ <<"n3">> \in PotentialAbove(8)
    /\ <<"n3">> \notin Range(Qualifying)
    /\ Len(result) = 4

\* -------------------------------------------------------------------------
\* End to end: batches of up to three employees who report one activity
\* each, then the two detectors
\* -------------------------------------------------------------------------

\* three employees, each reporting "Invoice Approval" (Finance, 2 hours,
\* daily, no dependencies)
ThreeApprovals ==
    <<[workflows |-> <<WfApproval>>], [workflows |-> <<WfApproval>>],
      [workflows |-> <<WfApproval>>]>>

EndToEndBatches ==
    SeqUpTo({[workflows |-> <<w>>] : w \in {WfApproval, WfSendInvoices}}, 3)

NextEndToEnd ==
    \/ \E batch \in EndToEndBatches : MapCompanyWorkflows(batch)
    \/ IdentifyBottlenecks
    \/ DetectRedundancies

SpecEndToEnd == Init /\ [][NextEndToEnd]_vars

\* the three records were ingested, once, into a new mapper and both
\* detectors have run since
ThreeApprovalsAnalysed ==
    /\ passes = 1
    /\ lastBatch = ThreeApprovals
    /\ {"identify", "detect"} \subseteq since

\* the positions in self.bottlenecks of the entries of a type
EntriesOfType(type) ==
    {i \in 1..Len(bottlenecks) : bottlenecks[i].type = type}

\* the positions in self.redundancies of the duplicate_process entries
DuplicateEntryPositions ==
    {i \in 1..Len(redundancies) : redundancies[i].type = "duplicate_process"}

\* exactly one approval bottleneck, of severity 0.7 and savings 10
OneApprovalBottleneck ==
    /\ Cardinality(EntriesOfType("approval")) = 1
    /\ \A i \in EntriesOfType("approval") :
           /\ bottlenecks[i].severity = <<7, 10>>
           /\ bottlenecks[i].estimated_savings_hours = <<10, 1>>

\* C26 as stated: three records of "Invoice Approval" and both detectors
\* yield exactly one approval bottleneck (severity 0.7, savings 10) and at
\* least one duplicate_process redundancy.
C26_ApprovalAndDuplicate ==
    ThreeApprovalsAnalysed =>
        OneApprovalBottleneck /\ DuplicateEntryPositions # {}

\* C26 amended: three records of "Invoice Approval" merge into one node, so
\* both detectors yield exactly one bottleneck, the approval bottleneck
\* (severity 0.7, savings 10), and no redundancy.
C26_ApprovalAndNoDuplicate ==
    ThreeApprovalsAnalysed =>
        /\ Graph.node = <<InvoiceApproval>>
        /\ OneApprovalBottleneck
        /\ Len(bottlenecks) = 1
        /\ redundancies = <<>>

C26_Witness ==
    /\ ThreeApprovalsAnalysed
    /\ bottlenecks # <<>>
    /\ call.op = "detect"

\* -------------------------------------------------------------------------
\* The record collect_employee_data returns
\* -------------------------------------------------------------------------

\* C27: collect_employee_data returns (does not raise) a record whose
\* "workflows" list holds one WorkflowNode per entry of daily_activities, in
\* the same order, and whose "pain_points" list holds one entry per
\* reported pain point.
C27_CollectReturnsRecord ==
    call.op = "collect" =>
        /\ call.raised = "none"
        /\ LET daily_activities == Get(args[1], "daily_activities", <<>>)
               pain_points == Get(args[1], "pain_points", <<>>)
           IN  /\ Len(result.workflows) = Len(daily_activities)
               /\ \A i \in 1..Len(daily_activities) :
                      result.workflows[i].name = daily_activities[i].name
               /\ Len(result.pain_points) = Len(pain_points)

\* -------------------------------------------------------------------------
\* automation_potential on the graph
\* -------------------------------------------------------------------------

\* C28: no node of the dependency graph carries an automation_potential
\* attribute, and generate_insights reports automation_opportunities = 0,
\* automation_candidates = 0 for every department and no quick win,
\* whatever automation flags the ingested activities had.
C28_NoAutomationPotential ==
    /\ \A n \in NodeSet(Graph) :
           "automation_potential" \notin DOMAIN Graph.data[n]
    /\ (call.op = "insights" =>
           /\ insights.executive_summary.automation_opportunities = 0
           /\ \A d \in DOMAIN insights.department_specific :
                  insights.department_specific[d].automation_candidates = 0
           /\ insights.quick_wins = <<>>)

\* generate_insights on a graph that holds both flagged activities
C28_Witness ==
    /\ call.op = "insights"
    /\ <<InvoiceApproval, InvoiceApproval>> \in merged
    /\ <<Review, Review>> \in merged
    /\ DOMAIN insights.department_specific # {}

\* -------------------------------------------------------------------------
\* Coverage of the graph by the department rollups
\* -------------------------------------------------------------------------

\* the sum of total_processes over the department entries
RollupTotal ==
    IntSum([d \in DOMAIN insights.department_specific |->
               insights.department_specific[d].total_processes],
           DOMAIN insights.department_specific)

\* C29: after generate_insights the total_processes values of all
\* department entries sum to the number of graph nodes: every node, a stub
\* or a node ingested without department included, is counted under
\* exactly one department key.
C29_RollupsCoverGraph ==
    call.op = "insights" => RollupTotal = Len(Graph.node)

\* -------------------------------------------------------------------------
\* get_workflow_update before and after an analysis
\* -------------------------------------------------------------------------

\* C30: before any mapping get_workflow_update returns the status "No
\* workflow data available"; after analyze_company_workflows has completed
\* it returns (does not raise) a record whose current_bottlenecks is the
\* number of bottlenecks of the latest analysis and whose
\* next_update_scheduled is the next_update of the latest schedule.
C30_UpdateAfterAnalysis ==
    call.op = "update" =>
        /\ call.raised = "none"
        /\ IF report = NoReport
           THEN result = [status |-> "No workflow data available"]
           ELSE /\ result.current_bottlenecks = Len(report.bottlenecks)
                /\ result.next_update_scheduled =
                       report.update_schedule.next_update

\* the first half of C30: with no workflow data stored, get_workflow_update
\* returns the status
C30_UpdateBeforeMapping ==
    (call.op = "update" /\ workflows = EmptyDict) =>
        /\ call.raised = "none"
        /\ result = [status |-> "No workflow data available"]

====
